---------------------------- MODULE Spec2Model ----------------------------
(***************************************************************************)
(* A model of ExtractProbe.py: the text extraction functions               *)
(* (clean_result, extract_urls, extract_all_ips), the liveness probe       *)
(* (check_url_status, check_urls_list) and the application flow (main,     *)
(* run_url_check_gui).                                                     *)
(*                                                                         *)
(* A Python str is a sequence of one-character strings.  Three characters  *)
(* outside ASCII are written by their code points: "U+FF0C" (fullwidth     *)
(* comma), "U+3001" (ideographic comma) and "U+FF1A" (fullwidth colon).    *)
(***************************************************************************)
EXTENDS Integers, Sequences, FiniteSets, TLC

VARIABLES
    \* ---- extraction (extract_urls / extract_all_ips applied to a text)
    tokens,      \* the pieces the input text was built from
    sep,         \* the separator between the pieces
    text,        \* the input text
    epc,         \* "input" | "urls" | "ips" | "off"
    extracted,   \* the set the extraction returned
    \* ---- check_urls_list(urls, progress_callback)
    urls,        \* the input list
    index,       \* the loop's index: the probes completed and reported
    cur,         \* the normalized URL of the probe in progress
    script,      \* what the server answers to attempts 1, 2, ... of this probe
    nattempts,   \* the request attempts this probe has made
    retriesLeft, \* Retry.total of the adapter that serves this probe
    response,    \* the status of the response session.get returned
    results,     \* the rows appended so far
    calls,       \* the arguments of the progress_callback invocations so far
    events,      \* the log of probe begins, probe ends and callbacks
    bpc,         \* "loop" | "request" | "parse" | "callback" | "done" | "raised" | "off"
    \* ---- main() and run_url_check_gui
    mpc,         \* where the main thread is in main()
    input_text,  \* the text read from the input file
    mode,        \* "none" | "ip" | "url"
    found,       \* what the extraction returned
    messages,    \* the message boxes shown so far
    asked_output,\* was the user asked for an output location?
    written,     \* was the output file written?
    tclThreaded, \* is the Tcl that tkinter binds to built with threads?
    mainloop,    \* is root.mainloop() running?
    wpc,         \* where the worker thread is in run_check
    windex,      \* the worker's loop index
    probedBy,    \* the threads that have run a probe
    widgetOps    \* the operations on the progress widgets, with their threads

-----------------------------------------------------------------------------
(* Characters and character classes                                        *)

FwComma == "U+FF0C"
IdeoComma == "U+3001"
FwColon == "U+FF1A"

DigitSeq == <<"0", "1", "2", "3", "4", "5", "6", "7", "8", "9">>
LowerSeq ==
    <<"a", "b", "c", "d", "e", "f", "g", "h", "i", "j", "k", "l", "m",
      "n", "o", "p", "q", "r", "s", "t", "u", "v", "w", "x", "y", "z">>
UpperSeq ==
    <<"A", "B", "C", "D", "E", "F", "G", "H", "I", "J", "K", "L", "M",
      "N", "O", "P", "Q", "R", "S", "T", "U", "V", "W", "X", "Y", "Z">>

Range(s) == {s[k] : k \in DOMAIN s}

\* \d
Digits == Range(DigitSeq)
\* [a-zA-Z]
Letters == Range(LowerSeq) \cup Range(UpperSeq)
\* [a-zA-Z0-9-]
LabelChars == Letters \cup Digits \cup {"-"}
\* \s
Whitespace == {" ", "\t", "\n", "\r"}
\* the complement of [^\s，、,]
UrlStop == Whitespace \cup {FwComma, IdeoComma, ","}
\* the characters rstrip('}"，,') removes
CleanChars == {"}", "\"", FwComma, ","}

\* re.IGNORECASE on an ASCII letter
Lower(c) ==
    IF c \in Range(UpperSeq)
    THEN LowerSeq[CHOOSE k \in DOMAIN UpperSeq : UpperSeq[k] = c]
    ELSE c

LowerStr(s) == [k \in DOMAIN s |-> Lower(s[k])]

\* the value of a decimal digit
DigitVal(c) == (CHOOSE k \in DOMAIN DigitSeq : DigitSeq[k] = c) - 1

Min(a, b) == IF a < b THEN a ELSE b

\* does pat occur in s at position i (1-based)?
StartsWith(s, i, pat) ==
    /\ i >= 1
    /\ i + Len(pat) - 1 <= Len(s)
    /\ SubSeq(s, i, i + Len(pat) - 1) = pat

\* the length of the longest run of characters of class S that starts at i
RECURSIVE RunLen(_, _, _)
RunLen(s, i, S) ==
    IF i >= 1 /\ i <= Len(s) /\ s[i] \in S THEN 1 + RunLen(s, i + 1, S) ELSE 0

-----------------------------------------------------------------------------
(* clean_result: item.rstrip('}"，,').strip()                              *)

RECURSIVE rstrip(_, _)
rstrip(s, S) ==
    IF Len(s) > 0 /\ s[Len(s)] \in S THEN rstrip(SubSeq(s, 1, Len(s) - 1), S) ELSE s

RECURSIVE lstrip(_, _)
lstrip(s, S) ==
    IF Len(s) > 0 /\ s[1] \in S THEN lstrip(SubSeq(s, 2, Len(s)), S) ELSE s

strip(s) == lstrip(rstrip(s, Whitespace), Whitespace)

clean_result(item) == strip(rstrip(item, CleanChars))

-----------------------------------------------------------------------------
(* url_pattern: (https?://[^\s，、,]+)                                     *)

SchemeHttp == <<"h", "t", "t", "p", ":", "/", "/">>
SchemeHttps == <<"h", "t", "t", "p", "s", ":", "/", "/">>

\* [^\s，、,] within the characters of s
NotUrlStop(s) == Range(s) \ UrlStop

\* the position after the match that starts at i, 0 when there is none
\* ("s?" is greedy: https:// is tried first, then http://)
url_match_end(s, i) ==
    IF StartsWith(s, i, SchemeHttps) /\ RunLen(s, i + 8, NotUrlStop(s)) > 0
    THEN i + 8 + RunLen(s, i + 8, NotUrlStop(s))
    ELSE IF StartsWith(s, i, SchemeHttp) /\ RunLen(s, i + 7, NotUrlStop(s)) > 0
    THEN i + 7 + RunLen(s, i + 7, NotUrlStop(s))
    ELSE 0

\* url_pattern.findall(text), from position i on
RECURSIVE url_findall(_, _)
url_findall(s, i) ==
    IF i > Len(s) THEN {}
    ELSE LET e == url_match_end(s, i)
         IN  IF e > 0
             THEN {SubSeq(s, i, e - 1)} \cup url_findall(s, e)
             ELSE url_findall(s, i + 1)

-----------------------------------------------------------------------------
(* The dotted quad \d{1,3}(?:\.\d{1,3}){3}                                 *)

\* The position after a group \d{1,3} at i that a "." must follow, 0 when
\* there is none: the group is the whole run of digits, of at most 3.
quad_group_dot(s, i) ==
    LET r == RunLen(s, i, Digits)
    IN  IF r >= 1 /\ r <= 3 /\ StartsWith(s, i + r, <<".">>) THEN i + r + 1 ELSE 0

\* The position after the quad that starts at i, 0 when there is none.
\* The last group is greedy: at most 3 digits of the run; with the
\* lookahead (?!\d) no shorter group helps, so a run above 3 fails.
quad_match_end(s, i, lookahead) ==
    LET p2 == quad_group_dot(s, i)
        p3 == IF p2 > 0 THEN quad_group_dot(s, p2) ELSE 0
        p4 == IF p3 > 0 THEN quad_group_dot(s, p3) ELSE 0
        r == IF p4 > 0 THEN RunLen(s, p4, Digits) ELSE 0
    IN  IF r = 0 THEN 0
        ELSE IF lookahead THEN (IF r <= 3 THEN p4 + r ELSE 0)
        ELSE p4 + Min(r, 3)

\* ip_pattern of extract_urls: (?:(?<!\d))(\d{1,3}(?:\.\d{1,3}){3})(?!\d)
ip_pattern_end(s, i) ==
    IF i > 1 /\ s[i - 1] \in Digits THEN 0 ELSE quad_match_end(s, i, TRUE)

\* pattern of extract_all_ips: (\d{1,3}(?:\.\d{1,3}){3})
all_ips_pattern_end(s, i) == quad_match_end(s, i, FALSE)

-----------------------------------------------------------------------------
(* The port label: re.search(r'(?:prot|port)[:：]\s*(\d+)', ..., re.I)     *)

PortLabels == {<<"p", "r", "o", "t">>, <<"p", "o", "r", "t">>}

\* the start of the digits of the match that starts at j, 0 when none
port_digits_at(w, j) ==
    IF /\ j + 4 <= Len(w)
       /\ LowerStr(SubSeq(w, j, j + 3)) \in PortLabels
       /\ w[j + 4] \in {":", FwColon}
    THEN LET d == j + 5 + RunLen(w, j + 5, Whitespace)
         IN  IF RunLen(w, d, Digits) > 0 THEN d ELSE 0
    ELSE 0

\* group(1) of the leftmost match in w, <<>> when there is no match
port_match(w) ==
    LET hits == {j \in 1..Len(w) : port_digits_at(w, j) > 0}
    IN  IF hits = {} THEN <<>>
        ELSE LET j == CHOOSE x \in hits : \A y \in hits : x <= y
                 d == port_digits_at(w, j)
             IN  SubSeq(w, d, d + RunLen(w, d, Digits) - 1)

\* the URL the bare-IP pass builds for the match s[i..e-1]
ip_url(s, i, e) ==
    LET ip == SubSeq(s, i, e - 1)
        following_text == SubSeq(s, e, Min(Len(s), e + 19))
        port == port_match(following_text)
    IN  clean_result(IF port # <<>>
                     THEN SchemeHttp \o ip \o <<":">> \o port
                     ELSE SchemeHttp \o ip)

\* re.finditer(ip_pattern, text), from position i on: the matches, each
\* as <<start, position after its end>>
RECURSIVE ip_finditer(_, _)
ip_finditer(s, i) ==
    IF i > Len(s) THEN {}
    ELSE LET e == ip_pattern_end(s, i)
         IN  IF e > 0
             THEN {<<i, e>>} \cup ip_finditer(s, e)
             ELSE ip_finditer(s, i + 1)

\* the bare-IP pass
ip_pass(s) == {ip_url(s, m[1], m[2]) : m \in ip_finditer(s, 1)}

-----------------------------------------------------------------------------
(* domain_pattern:                                                         *)
(*   (?<!://)(?<![0-9\.])((?:www\.)?[a-zA-Z0-9-]+                          *)
(*      \.(?:com|net|org|cn|cc|io|gov|edu)(?:\.[a-zA-Z]{2,})?)             *)

\* the alternation, in its order (no entry is a prefix of another)
Tlds ==
    << <<"c", "o", "m">>, <<"n", "e", "t">>, <<"o", "r", "g">>, <<"c", "n">>,
       <<"c", "c">>, <<"i", "o">>, <<"g", "o", "v">>, <<"e", "d", "u">> >>

\* the position after the first alternative that matches at i, 0 when none
tld_end(s, i) ==
    LET hits == {k \in DOMAIN Tlds : StartsWith(s, i, Tlds[k])}
    IN  IF hits = {} THEN 0
        ELSE i + Len(Tlds[CHOOSE k \in hits : \A m \in hits : k <= m])

\* (?:\.[a-zA-Z]{2,})? at i: greedy, and it cannot fail
suffix_end(s, i) ==
    IF StartsWith(s, i, <<".">>) /\ RunLen(s, i + 1, Letters) >= 2
    THEN i + 1 + RunLen(s, i + 1, Letters)
    ELSE i

\* [a-zA-Z0-9-]+\.(?:tld)(?:suffix)? at j: the label is the whole run of
\* label characters, since a "." must follow it
domain_rest_end(s, j) ==
    LET r == RunLen(s, j, LabelChars)
        t == IF r >= 1 /\ StartsWith(s, j + r, <<".">>) THEN tld_end(s, j + r + 1) ELSE 0
    IN  IF t > 0 THEN suffix_end(s, t) ELSE 0

\* the position after the match that starts at i, 0 when there is none
domain_match_end(s, i) ==
    IF \/ StartsWith(s, i - 3, <<":", "/", "/">>)
       \/ (i > 1 /\ s[i - 1] \in Digits \cup {"."})
    THEN 0
    ELSE LET www == IF StartsWith(s, i, <<"w", "w", "w", ".">>)
                    THEN domain_rest_end(s, i + 4) ELSE 0
         IN  IF www > 0 THEN www ELSE domain_rest_end(s, i)

\* the loop over domain_pattern.findall(text), from position i on
RECURSIVE domain_pass(_, _)
domain_pass(s, i) ==
    IF i > Len(s) THEN {}
    ELSE LET e == domain_match_end(s, i)
         IN  IF e > 0
             THEN {SchemeHttps \o clean_result(SubSeq(s, i, e - 1))} \cup domain_pass(s, e)
             ELSE domain_pass(s, i + 1)

\* the explicit-scheme pass
url_pass(s) == {clean_result(u) : u \in url_findall(s, 1)}

\* extract_urls(text), as the set its list holds
extract_urls(s) == url_pass(s) \cup ip_pass(s) \cup domain_pass(s, 1)

-----------------------------------------------------------------------------
(* extract_all_ips                                                         *)

\* str.split('.')
RECURSIVE split_dot(_)
split_dot(s) ==
    LET dots == {k \in DOMAIN s : s[k] = "."}
    IN  IF dots = {} THEN <<s>>
        ELSE LET k == CHOOSE x \in dots : \A y \in dots : x <= y
             IN  <<SubSeq(s, 1, k - 1)>> \o split_dot(SubSeq(s, k + 1, Len(s)))

\* int(octet_str, 10)
RECURSIVE octet_int(_)
octet_int(o) ==
    IF o = <<>> THEN 0
    ELSE 10 * octet_int(SubSeq(o, 1, Len(o) - 1)) + DigitVal(o[Len(o)])

\* ipaddress.IPv4Address._parse_octet does not raise
octet_ok(o) ==
    /\ o # <<>>
    /\ Range(o) \subseteq Digits
    /\ Len(o) <= 3
    /\ ~(o # <<"0">> /\ o[1] = "0")
    /\ octet_int(o) <= 255

\* ipaddress.IPv4Address(ip) does not raise
IPv4Address_ok(ip) ==
    LET octets == split_dot(ip)
    IN  ip # <<>> /\ Len(octets) = 4 /\ \A k \in 1..4 : octet_ok(octets[k])

\* pattern.findall(text), from position i on
RECURSIVE all_ips_findall(_, _)
all_ips_findall(s, i) ==
    IF i > Len(s) THEN {}
    ELSE LET e == all_ips_pattern_end(s, i)
         IN  IF e > 0
             THEN {SubSeq(s, i, e - 1)} \cup all_ips_findall(s, e)
             ELSE all_ips_findall(s, i + 1)

\* extract_all_ips(text), as the set its list holds; str(IPv4Address(ip))
\* is ip itself, no octet of an accepted ip having a leading zero
extract_all_ips(s) == {ip \in all_ips_findall(s, 1) : IPv4Address_ok(ip)}

-----------------------------------------------------------------------------
(* Input texts: pieces joined by a separator                               *)

\* http://a.com
TokHttpA ==
    <<"h", "t", "t", "p", ":", "/", "/", "a", ".", "c", "o", "m">>
\* http://ab.com
TokHttpAb ==
    <<"h", "t", "t", "p", ":", "/", "/", "a", "b", ".", "c", "o", "m">>
\* https://b.com
TokHttpsB ==
    <<"h", "t", "t", "p", "s", ":", "/", "/", "b", ".", "c", "o", "m">>
\* https://9.9.9.9
TokHttpsIp ==
    <<"h", "t", "t", "p", "s", ":", "/", "/", "9", ".", "9", ".", "9",
    ".", "9">>
\* 192.168.1.1
TokIp ==
    <<"1", "9", "2", ".", "1", "6", "8", ".", "1", ".", "1">>
\* 999.1.1.1
TokBigOctet ==
    <<"9", "9", "9", ".", "1", ".", "1", ".", "1">>
\* 1.2.3.4.5
TokVersion ==
    <<"1", ".", "2", ".", "3", ".", "4", ".", "5">>
\* 1.1.1.1234
TokLongRun ==
    <<"1", ".", "1", ".", "1", ".", "1", "2", "3", "4">>
\* 01.2.3.4
TokLeadZero ==
    <<"0", "1", ".", "2", ".", "3", ".", "4">>
\* 10.0.0.5 Port:80
TokIpPort ==
    <<"1", "0", ".", "0", ".", "0", ".", "5", " ", "P", "o", "r", "t",
    ":", "8", "0">>
\* www.ab.cn
TokWww ==
    <<"w", "w", "w", ".", "a", "b", ".", "c", "n">>
\* up
TokWord ==
    <<"u", "p">>

\* the pieces that are explicit-scheme URLs
SchemeTokens == {TokHttpA, TokHttpAb, TokHttpsB, TokHttpsIp}

Tokens ==
    SchemeTokens \cup
    {TokIp, TokBigOctet, TokVersion, TokLongRun, TokLeadZero, TokIpPort, TokWww, TokWord}

Seps == {<<",", " ">>, <<" ">>}

\* the most pieces in a text
MaxTokens == 2

RECURSIVE Join(_, _)
Join(ts, sp) ==
    IF Len(ts) = 0 THEN <<>>
    ELSE IF Len(ts) = 1 THEN ts[1]
    ELSE ts[1] \o sp \o Join(Tail(ts), sp)

TokenLists == UNION {[1..n -> Tokens] : n \in 1..MaxTokens}

-----------------------------------------------------------------------------
(* Variable groups; a specification keeps the groups it does not use idle  *)

extractVars == <<tokens, sep, text, epc, extracted>>

batchVars ==
    <<urls, index, cur, script, nattempts, retriesLeft, response, results,
      calls, events, bpc>>

mainVars ==
    <<mpc, input_text, mode, found, messages, asked_output, written,
      tclThreaded, mainloop, wpc, windex, probedBy, widgetOps>>

vars == <<extractVars, batchVars, mainVars>>

ExtractOff ==
    /\ tokens = <<>>
    /\ sep = <<>>
    /\ text = <<>>
    /\ epc = "off"
    /\ extracted = {}

BatchOff ==
    /\ urls = <<>>
    /\ index = 0
    /\ cur = <<>>
    /\ script = <<>>
    /\ nattempts = 0
    /\ retriesLeft = 0
    /\ response = ""
    /\ results = <<>>
    /\ calls = <<>>
    /\ events = <<>>
    /\ bpc = "off"

MainOff ==
    /\ mpc = "off"
    /\ input_text = <<>>
    /\ mode = "none"
    /\ found = {}
    /\ messages = {}
    /\ asked_output = FALSE
    /\ written = FALSE
    /\ tclThreaded = FALSE
    /\ mainloop = FALSE
    /\ wpc = "off"
    /\ windex = 0
    /\ probedBy = {}
    /\ widgetOps = <<>>

-----------------------------------------------------------------------------
(* The extraction functions applied to an input text                       *)

InitExtract ==
    /\ tokens \in TokenLists
    /\ sep \in Seps
    /\ text = Join(tokens, sep)
    /\ epc = "input"
    /\ extracted = {}
    /\ BatchOff
    /\ MainOff

RunExtractUrls ==
    /\ epc = "input"
    /\ extracted' = extract_urls(text)
    /\ epc' = "urls"
    /\ UNCHANGED <<tokens, sep, text>>
    /\ UNCHANGED <<batchVars, mainVars>>

RunExtractIps ==
    /\ epc = "input"
    /\ extracted' = extract_all_ips(text)
    /\ epc' = "ips"
    /\ UNCHANGED <<tokens, sep, text>>
    /\ UNCHANGED <<batchVars, mainVars>>

NextExtract == RunExtractUrls \/ RunExtractIps

SpecExtract == InitExtract /\ [][NextExtract]_vars

\* a digit or a dot: what makes a dotted quad a piece of a longer run
RunChars == Digits \cup {"."}

\* s[i..e-1] is a whole token: no digit or dot right before or right after
WholeToken(s, i, e) ==
    /\ (i = 1 \/ s[i - 1] \notin RunChars)
    /\ (e > Len(s) \/ s[e] \notin RunChars)

\* C6: for a text that is a list of explicit-scheme URLs separated by a
\* comma and a space, extract_urls returns exactly the set of those URLs:
\* the bare-IP pass and the bare-domain pass add nothing.
C6_SchemeListExtractedExactly ==
    (/\ epc = "urls"
     /\ sep = <<",", " ">>
     /\ \A k \in DOMAIN tokens : tokens[k] \in SchemeTokens)
    => extracted = Range(tokens)

\* C7: extract_all_ips returns a string only when it is a whole dotted-quad
\* token of the text (not a piece of a longer run of digits and dots) whose
\* four components are each in 0..255.
C7_OnlyWholeValidQuads ==
    epc = "ips" =>
        \A ip \in extracted :
            /\ \E i \in 1..Len(text) :
                   StartsWith(text, i, ip) /\ WholeToken(text, i, i + Len(ip))
            /\ Len(split_dot(ip)) = 4
            /\ \A k \in 1..4 : octet_int(split_dot(ip)[k]) \in 0..255

\* C8: the bare-IP pass of extract_urls emits a URL for a dotted-quad match
\* only when the match is neither preceded nor followed by a digit or a dot.
C8_BareIpOnlyFromWholeQuads ==
    epc = "urls" =>
        \A m \in ip_finditer(text, 1) :
            /\ ip_url(text, m[1], m[2]) \in extracted
            /\ WholeToken(text, m[1], m[2])

-----------------------------------------------------------------------------
(* check_url_status: the session, its adapters and the retry policy        *)

\* Retry(total=3, ...)
RetryTotal == 3
\* status_forcelist=[500, 502, 503, 504]
StatusForcelist == {"500", "502", "503", "504"}
\* the prefix session.mount gives the retrying adapter
MountPrefix == SchemeHttps

\* The adapter's max_retries for a URL.  A Session starts with a default
\* HTTPAdapter (no retry, empty forcelist) on http:// and on https://;
\* session.mount replaces the one under MountPrefix alone.
max_retries(url) ==
    IF StartsWith(LowerStr(url), 1, MountPrefix)
    THEN [total |-> RetryTotal, forcelist |-> StatusForcelist]
    ELSE [total |-> 0, forcelist |-> {}]

\* the loop's normalization of a URL
Normalize(url) ==
    IF StartsWith(url, 1, SchemeHttp) \/ StartsWith(url, 1, SchemeHttps)
    THEN url
    ELSE SchemeHttp \o url

\* wrap_text on the titles of this model: None gives 'null'; the others are
\* single words below the width, which textwrap.wrap returns as one line
wrap_text(title) == IF title = "None" THEN "null" ELSE title

\* progress_args reporting enumerate's index itself
progress_args_stale(i, total) == <<i, total>>

\* the arguments of the callback after the probe of enumerate's index
progress_args(i, total) == <<i + 1, total>>

-----------------------------------------------------------------------------
(* The environment of a probe                                              *)

\* what the server does with one request attempt: a response with this
\* status, or a connection-level failure (refused, reset, DNS, timeout).
\* A status code is written as its decimal string, so that it compares
\* with the status 'Error'.
Outcomes == {"200", "503", "ConnError"}

\* the answers to the attempts of one probe
Scripts == [1..(RetryTotal + 1) -> Outcomes]

\* c.cn
BareUrl == <<"c", ".", "c", "n">>
BatchUrls == {TokHttpA, TokHttpsB, BareUrl}

\* the longest input list
MaxUrls == 2

UrlLists == UNION {[1..n -> BatchUrls] : n \in 0..MaxUrls}

-----------------------------------------------------------------------------
(* check_urls_list, one probe at a time                                    *)

InitBatch ==
    /\ ExtractOff
    /\ MainOff
    /\ urls \in UrlLists
    /\ index = 0
    /\ cur = <<>>
    /\ script = <<>>
    /\ nattempts = 0
    /\ retriesLeft = 0
    /\ response = ""
    /\ results = <<>>
    /\ calls = <<>>
    /\ events = <<>>
    /\ bpc = "loop"

\* check_url_status returned (status_code, title): the row is appended
ProbeReturns(status_code, title) ==
    /\ results' = Append(results, [url |-> cur, status |-> status_code,
                                   title |-> wrap_text(title)])
    /\ events' = Append(events, <<"end", index + 1>>)
    /\ bpc' = "callback"

\* the loop takes the next URL, normalizes it and calls check_url_status,
\* which builds the session and mounts the adapter
BeginProbe ==
    /\ bpc = "loop"
    /\ index < Len(urls)
    /\ cur' = Normalize(urls[index + 1])
    /\ script' \in Scripts
    /\ nattempts' = 0
    /\ retriesLeft' = max_retries(cur').total
    /\ events' = Append(events, <<"begin", index + 1>>)
    /\ bpc' = "request"
    /\ UNCHANGED <<urls, index, response, results, calls>>
    /\ UNCHANGED <<extractVars, mainVars>>

\* One request attempt inside session.get.  A connection error or a
\* forcelist status goes to Retry.increment: total - 1, exhausted below 0,
\* and then MaxRetryError, which requests raises as a RequestException
\* (ConnectionError, or RetryError: raise_on_status is left True).
Attempt ==
    /\ bpc = "request"
    /\ LET a == script[nattempts + 1]
           retry == a = "ConnError" \/ a \in max_retries(cur).forcelist
       IN  /\ nattempts' = nattempts + 1
           /\ IF retry /\ retriesLeft - 1 < 0
              THEN /\ ProbeReturns("Error", "exc")
                   /\ UNCHANGED <<retriesLeft, response>>
              ELSE IF retry
              THEN /\ retriesLeft' = retriesLeft - 1
                   /\ UNCHANGED <<response, results, events, bpc>>
              ELSE /\ response' = a
                   /\ bpc' = "parse"
                   /\ UNCHANGED <<retriesLeft, results, events>>
    /\ UNCHANGED <<urls, index, cur, script, calls>>
    /\ UNCHANGED <<extractVars, mainVars>>

\* The response is decoded and parsed: a title, no title, or an exception
\* that is no RequestException, which the except clause does not catch and
\* check_urls_list does not handle.
Parse ==
    /\ bpc = "parse"
    /\ \E out \in {"T", "None", "raise"} :
           IF out = "raise"
           THEN /\ bpc' = "raised"
                /\ UNCHANGED <<results, events>>
           ELSE ProbeReturns(response, out)
    /\ UNCHANGED <<urls, index, cur, script, nattempts, retriesLeft, response, calls>>
    /\ UNCHANGED <<extractVars, mainVars>>

\* progress_callback(index + 1, total), then the next iteration
Progress ==
    /\ bpc = "callback"
    /\ calls' = Append(calls, progress_args(index, Len(urls)))
    /\ events' = Append(events, <<"progress", index + 1>>)
    /\ index' = index + 1
    /\ bpc' = "loop"
    /\ UNCHANGED <<urls, cur, script, nattempts, retriesLeft, response, results>>
    /\ UNCHANGED <<extractVars, mainVars>>

\* the loop is over: the DataFrame of the rows is returned
ReturnRows ==
    /\ bpc = "loop"
    /\ index = Len(urls)
    /\ bpc' = "done"
    /\ UNCHANGED <<urls, index, cur, script, nattempts, retriesLeft, response,
                   results, calls, events>>
    /\ UNCHANGED <<extractVars, mainVars>>

NextBatch == BeginProbe \/ Attempt \/ Parse \/ Progress \/ ReturnRows

SpecBatch == InitBatch /\ [][NextBatch]_vars

\* the k-th entry of the log of a run without interleaving:
\* begin 1, end 1, progress 1, begin 2, end 2, progress 2, ...
ExpectedEvent(k) ==
    LET n == ((k - 1) \div 3) + 1
        r == (k - 1) % 3
    IN  <<IF r = 0 THEN "begin" ELSE IF r = 1 THEN "end" ELSE "progress", n>>

LastRow == results[Len(results)]

\* C1: check_urls_list returns N rows, row i for input element i, and it
\* invokes progress_callback N times with (1, N), (2, N), ..., (N, N), the
\* k-th invocation after probe k has completed and before probe k+1 begins.
C1_RowsAndProgressInOrder ==
    /\ \A k \in DOMAIN events : events[k] = ExpectedEvent(k)
    /\ \A k \in DOMAIN calls : calls[k] = <<k, Len(urls)>>
    /\ \A k \in DOMAIN results : results[k].url = Normalize(urls[k])
    /\ bpc = "callback" =>
           LastRow.status \in {"Error", script[nattempts]}
    /\ bpc = "done" =>
           /\ Len(results) = Len(urls)
           /\ Len(calls) = Len(urls)

\* a complete run over a list with a duplicate, one probe of which failed
C1_Witness ==
    /\ bpc = "done"
    /\ Len(urls) = 2
    /\ urls[1] = urls[2]
    /\ results[1].status = "Error"
    /\ results[2].status = "200"
    /\ calls = <<<<1, 2>>, <<2, 2>>>>

\* C2: no failure of one probe aborts the batch: check_url_status raises
\* nothing to check_urls_list, and a probe that failed gets a row with the
\* status "Error".
C2_NoProbeErrorAbortsBatch ==
    /\ bpc # "raised"
    /\ (bpc = "callback" /\ script[nattempts] = "ConnError")
           => LastRow.status = "Error"

\* C3: a probe whose server answers 503 to every attempt ends with the
\* status 503, not with "Error".
C3_Persistent503Reported ==
    (bpc = "callback" /\ \A k \in DOMAIN script : script[k] = "503")
        => LastRow.status = "503"

\* C4: within a probe a further attempt is made only after a response with
\* a forcelist status, at most RetryTotal times; a connection-level error
\* ends the probe at once with the status "Error".
C4_RetryOnlyOnForcelistStatus ==
    bpc \in {"request", "parse", "callback"} =>
        /\ nattempts <= RetryTotal + 1
        /\ \A k \in 1..(nattempts - 1) : script[k] \in StatusForcelist
        /\ (bpc = "request" /\ nattempts >= 1)
               => script[nattempts] \in StatusForcelist
        /\ (bpc = "callback" /\ script[nattempts] = "ConnError")
               => LastRow.status = "Error"

\* C5: whatever the scheme of the normalized URL, when the server answers a
\* forcelist status on the first k attempts (1 <= k <= RetryTotal) and
\* another status on attempt k+1, the probe returns the status of attempt
\* k+1.
C5_RetryCoversEveryScheme ==
    bpc = "callback" =>
        \A k \in 1..RetryTotal :
            (/\ \A j \in 1..k : script[j] \in StatusForcelist
             /\ script[k + 1] \notin StatusForcelist \cup {"ConnError"})
            => LastRow.status = script[k + 1]

-----------------------------------------------------------------------------
(* main() on the main thread, run_check on the worker thread               *)

\* up / 192.168.1.1 / 999.1.1.1 / http://ab.com / www.ab.cn
MainTexts == {TokWord, TokIp, TokBigOctet, TokHttpAb, TokWww}

InitMain ==
    /\ ExtractOff
    /\ BatchOff
    /\ mpc = "askopen"
    /\ input_text = <<>>
    /\ mode = "none"
    /\ found = {}
    /\ messages = {}
    /\ asked_output = FALSE
    /\ written = FALSE
    /\ tclThreaded \in BOOLEAN
    /\ mainloop = FALSE
    /\ wpc = "idle"
    /\ windex = 0
    /\ probedBy = {}
    /\ widgetOps = <<>>

\* A call on a progress widget made by a thread.  On the main thread it
\* runs there.  From the worker thread tkinter runs it in the calling
\* thread when Tcl is built without threads, and hands it to the
\* interpreter's thread, which serves it from mainloop, when Tcl is built
\* with threads.
WidgetCall(op, thread) ==
    [op |-> op,
     caller |-> thread,
     interp |-> IF thread = "worker" /\ ~tclThreaded THEN "worker" ELSE "ui",
     looping |-> mainloop]

\* With a threaded Tcl a call from the worker cannot be served while the
\* main thread is not in mainloop (it waits, then raises RuntimeError).
\* A step of the worker that needs the call is taken once it can be served;
\* update_progress may also give up and raise.
WorkerCallServed == ~tclThreaded \/ mainloop

\* filedialog.askopenfilename
AskOpen ==
    /\ mpc = "askopen"
    /\ \E chosen \in BOOLEAN :
           IF chosen
           THEN mpc' = "read" /\ UNCHANGED messages
           ELSE mpc' = "exit" /\ messages' = messages \cup {"no input file"}
    /\ UNCHANGED <<input_text, mode, found, asked_output, written, tclThreaded,
                   mainloop, wpc, windex, probedBy, widgetOps>>
    /\ UNCHANGED <<extractVars, batchVars>>

\* open(...).read()
ReadInput ==
    /\ mpc = "read"
    /\ \/ /\ input_text' \in MainTexts
          /\ mpc' = "mode"
          /\ UNCHANGED messages
       \/ /\ messages' = messages \cup {"read failed"}
          /\ mpc' = "exit"
          /\ UNCHANGED input_text
    /\ UNCHANGED <<mode, found, asked_output, written, tclThreaded,
                   mainloop, wpc, windex, probedBy, widgetOps>>
    /\ UNCHANGED <<extractVars, batchVars>>

\* ModeSelectionDialog
SelectMode ==
    /\ mpc = "mode"
    /\ \E r \in {"none", "ip", "url"} :
           IF r = "none"
           THEN /\ messages' = messages \cup {"no mode"}
                /\ mpc' = "exit"
                /\ UNCHANGED mode
           ELSE /\ mode' = r
                /\ mpc' = "extract"
                /\ UNCHANGED messages
    /\ UNCHANGED <<input_text, found, asked_output, written, tclThreaded,
                   mainloop, wpc, windex, probedBy, widgetOps>>
    /\ UNCHANGED <<extractVars, batchVars>>

\* mode == "ip": extract_all_ips, then straight to the save dialog
ExtractIpMode ==
    /\ mpc = "extract"
    /\ mode = "ip"
    /\ found' = extract_all_ips(input_text)
    /\ mpc' = "asksave"
    /\ UNCHANGED <<input_text, mode, messages, asked_output, written, tclThreaded,
                   mainloop, wpc, windex, probedBy, widgetOps>>
    /\ UNCHANGED <<extractVars, batchVars>>

\* else: extract_urls; "if not urls" shows the message and returns
ExtractUrlMode ==
    /\ mpc = "extract"
    /\ mode = "url"
    /\ found' = extract_urls(input_text)
    /\ IF found' = {}
       THEN /\ messages' = messages \cup {"nothing extracted"}
            /\ mpc' = "exit"
       ELSE /\ mpc' = "askyesno"
            /\ UNCHANGED messages
    /\ UNCHANGED <<input_text, mode, asked_output, written, tclThreaded,
                   mainloop, wpc, windex, probedBy, widgetOps>>
    /\ UNCHANGED <<extractVars, batchVars>>

\* messagebox.askyesno; on yes run_url_check_gui builds the progress
\* window on the main thread and starts the worker thread
AskYesNo ==
    /\ mpc = "askyesno"
    /\ \/ /\ widgetOps' = Append(widgetOps, WidgetCall("create", "ui"))
          /\ wpc' = "probe"
          /\ mpc' = "started"
       \/ /\ mpc' = "asksave"
          /\ UNCHANGED <<widgetOps, wpc>>
    /\ UNCHANGED <<input_text, mode, found, messages, asked_output, written,
                   tclThreaded, mainloop, windex, probedBy>>
    /\ UNCHANGED <<extractVars, batchVars>>

\* root.mainloop()
EnterMainloop ==
    /\ mpc = "started"
    /\ mainloop' = TRUE
    /\ mpc' = "mainloop"
    /\ UNCHANGED <<input_text, mode, found, messages, asked_output, written,
                   tclThreaded, wpc, windex, probedBy, widgetOps>>
    /\ UNCHANGED <<extractVars, batchVars>>

\* filedialog.asksaveasfilename ("complete.txt" when nothing is chosen)
AskSave ==
    /\ mpc = "asksave"
    /\ asked_output' = TRUE
    /\ mpc' = "write"
    /\ UNCHANGED <<input_text, mode, found, messages, written, tclThreaded,
                   mainloop, wpc, windex, probedBy, widgetOps>>
    /\ UNCHANGED <<extractVars, batchVars>>

\* the items are written, one per line, and the outcome is reported
WriteOutput ==
    /\ mpc = "write"
    /\ \/ /\ written' = TRUE
          /\ messages' = messages \cup {"saved"}
       \/ /\ messages' = messages \cup {"save failed"}
          /\ UNCHANGED written
    /\ mpc' = "exit"
    /\ UNCHANGED <<input_text, mode, found, asked_output, tclThreaded,
                   mainloop, wpc, windex, probedBy, widgetOps>>
    /\ UNCHANGED <<extractVars, batchVars>>

\* run_check -> check_urls_list: the probe of the next URL, which returns
\* a row or raises (see Parse)
WorkerProbe ==
    /\ wpc = "probe"
    /\ probedBy' = probedBy \cup {"worker"}
    /\ \E out \in {"row", "raise"} :
           wpc' = IF out = "row" THEN "progress" ELSE "except"
    /\ UNCHANGED <<mpc, input_text, mode, found, messages, asked_output, written,
                   tclThreaded, mainloop, windex, widgetOps>>
    /\ UNCHANGED <<extractVars, batchVars>>

\* update_progress(index + 1, total), called by check_urls_list on the
\* worker thread
WorkerProgress ==
    /\ wpc = "progress"
    /\ IF WorkerCallServed
       THEN /\ widgetOps' = Append(widgetOps, WidgetCall("update", "worker"))
            /\ windex' = windex + 1
            /\ wpc' = IF windex + 1 < Cardinality(found) THEN "probe" ELSE "destroy"
       ELSE /\ wpc' = "except"
            /\ UNCHANGED <<widgetOps, windex>>
    /\ UNCHANGED <<mpc, input_text, mode, found, messages, asked_output, written,
                   tclThreaded, mainloop, probedBy>>
    /\ UNCHANGED <<extractVars, batchVars>>

\* progress_window.destroy(), then save_results_to_excel(df)
WorkerDestroyAndSave ==
    /\ wpc = "destroy"
    /\ WorkerCallServed
    /\ widgetOps' = Append(widgetOps, WidgetCall("destroy", "worker"))
    /\ \E out \in {"saved excel", "no directory", "excel failed"} :
           messages' = messages \cup {out}
    /\ wpc' = "end"
    /\ UNCHANGED <<mpc, input_text, mode, found, asked_output, written,
                   tclThreaded, mainloop, windex, probedBy>>
    /\ UNCHANGED <<extractVars, batchVars>>

\* except Exception: messagebox.showerror, then progress_window.destroy()
WorkerExcept ==
    /\ wpc = "except"
    /\ WorkerCallServed
    /\ messages' = messages \cup {"check failed"}
    /\ widgetOps' = Append(widgetOps, WidgetCall("destroy", "worker"))
    /\ wpc' = "end"
    /\ UNCHANGED <<mpc, input_text, mode, found, asked_output, written,
                   tclThreaded, mainloop, windex, probedBy>>
    /\ UNCHANGED <<extractVars, batchVars>>

NextMain ==
    \/ AskOpen \/ ReadInput \/ SelectMode \/ ExtractIpMode \/ ExtractUrlMode
    \/ AskYesNo \/ EnterMainloop \/ AskSave \/ WriteOutput
    \/ WorkerProbe \/ WorkerProgress \/ WorkerDestroyAndSave \/ WorkerExcept

SpecMain == InitMain /\ [][NextMain]_vars

\* C9: in a GUI batch run the probes execute on the worker thread, and
\* every update of the progress widgets, and the destruction of the
\* progress window, is executed on the UI event thread, never directly by
\* the worker thread.
C9_WidgetsTouchedOnUiThreadOnly ==
    /\ probedBy \subseteq {"worker"}
    /\ \A k \in DOMAIN widgetOps :
           widgetOps[k].caller = "ui" /\ widgetOps[k].interp = "ui"

\* C10: in either mode, when the extraction returns no item, main shows a
\* nothing-to-do message and stops: no output location is asked for, no
\* file is written, no save is reported and no batch is started.
C10_EmptyExtractionStops ==
    (mode # "none" /\ mpc # "extract" /\ found = {}) =>
        /\ mpc = "exit" => "nothing extracted" \in messages
        /\ ~asked_output
        /\ ~written
        /\ "saved" \notin messages
        /\ wpc = "idle"

=============================================================================
